---- MODULE Spec2Model ----
(***************************************************************************)
(* polyerror: the create_error! procedural macro.                          *)
(*                                                                         *)
(* One invocation is a pure function from a token stream to a token        *)
(* stream: ErrorSpecification::parse (src/src/parser.rs), Variant::from    *)
(* and recapitalize_error_path (src/src/variant.rs), and the quote!        *)
(* templates of create_error and Variant (src/src/lib.rs, variant.rs).     *)
(*                                                                         *)
(* Identifiers and derived names are sequences of one-character strings,   *)
(* so that the casing transform is computed character by character.        *)
(***************************************************************************)
EXTENDS Naturals, Sequences, FiniteSets

VARIABLES
    phase,                \* "lexing" | "done"  (Spec);  "typing" | "derived"  (NameSpec)
    input,                \* the macro's input TokenStream, a sequence of tokens
    error_specification,  \* lib.rs:88, the result of parse_macro_input!
    variants,             \* lib.rs:92, Vec<Variant>
    tokens,               \* lib.rs:94-113, what create_error returns (or a panic)
    cur,                  \* NameSpec: the identifier being written
    path,                 \* NameSpec: the syn::Path being written
    variant               \* NameSpec: Variant::from(path)

vars == <<phase, input, error_specification, variants, tokens, cur, path, variant>>

(***************************************************************************)
(* Bounds of the model.                                                    *)
(***************************************************************************)
MaxTokens == 6
MaxIdentLen == 3
MaxSegments == 2

(***************************************************************************)
(* Characters (char::is_lowercase and friends, restricted to ASCII).       *)
(***************************************************************************)
LowerAlpha ==
    << "a", "b", "c", "d", "e", "f", "g", "h", "i", "j", "k", "l", "m",
       "n", "o", "p", "q", "r", "s", "t", "u", "v", "w", "x", "y", "z" >>

UpperAlpha ==
    << "A", "B", "C", "D", "E", "F", "G", "H", "I", "J", "K", "L", "M",
       "N", "O", "P", "Q", "R", "S", "T", "U", "V", "W", "X", "Y", "Z" >>

DigitChars == {"0", "1", "2", "3", "4", "5", "6", "7", "8", "9"}

is_lowercase(c) == \E i \in 1..Len(LowerAlpha) : LowerAlpha[i] = c

is_uppercase(c) == \E i \in 1..Len(UpperAlpha) : UpperAlpha[i] = c

is_numeric(c) == c \in DigitChars

is_alphanumeric(c) == is_lowercase(c) \/ is_uppercase(c) \/ is_numeric(c)

to_ascii_uppercase(c) ==
    IF is_lowercase(c)
    THEN UpperAlpha[CHOOSE i \in 1..Len(LowerAlpha) : LowerAlpha[i] = c]
    ELSE c

to_ascii_lowercase(c) ==
    IF is_uppercase(c)
    THEN LowerAlpha[CHOOSE i \in 1..Len(UpperAlpha) : UpperAlpha[i] = c]
    ELSE c

(***************************************************************************)
(* proc_macro2::Ident::new (variant.rs:22, variant.rs:36) panics unless    *)
(* the string is an identifier: non-empty, starting with a letter or '_',  *)
(* continuing with letters, digits and '_', and not the lone '_'.          *)
(***************************************************************************)
is_ident_start(c) == is_lowercase(c) \/ is_uppercase(c) \/ c = "_"

is_ident_continue(c) == is_alphanumeric(c) \/ c = "_"

Ident_new_ok(string) ==
    /\ Len(string) >= 1
    /\ is_ident_start(string[1])
    /\ \A i \in 1..Len(string) : is_ident_continue(string[i])
    /\ string # << "_" >>

(***************************************************************************)
(* str::split("_") (variant.rs:48): the pieces between separators, empty   *)
(* pieces included; a string with k separators gives k+1 pieces.           *)
(***************************************************************************)
RECURSIVE split(_, _)
split(s, sep) ==
    IF \A i \in 1..Len(s) : s[i] # sep
    THEN << s >>
    ELSE LET k == CHOOSE i \in 1..Len(s) :
                      s[i] = sep /\ \A j \in 1..(i - 1) : s[j] # sep
         IN  << SubSeq(s, 1, k - 1) >> \o split(SubSeq(s, k + 1, Len(s)), sep)

(***************************************************************************)
(* inflector::cases::classcase::to_class_case (imported at variant.rs:4,   *)
(* called at variant.rs:55), as the Inflector crate computes it:           *)
(* to_case_camel_like under the class-case options, then the part from the *)
(* last uppercase character on is singularised.                            *)
(***************************************************************************)
ClassCaseOptions ==
    [ new_word |-> TRUE, last_char |-> " ", first_word |-> FALSE,
      injectable_char |-> " ", has_seperator |-> FALSE, inverted |-> FALSE ]

is_not_alphanumeric(c) == ~is_alphanumeric(c)

char_is_seperator(c) == is_not_alphanumeric(c)

RECURSIVE trim_right(_)
trim_right(s) ==
    IF s # <<>> /\ is_not_alphanumeric(s[Len(s)])
    THEN trim_right(SubSeq(s, 1, Len(s) - 1))
    ELSE s

last_char_lower_current_is_upper_or_new_word(new_word, last_char, character) ==
    \/ new_word
    \/ (is_lowercase(last_char) /\ is_uppercase(character) /\ last_char # " ")

append_on_new_word(result, first_word, character, options) ==
    LET injected ==
            IF ~first_word /\ options.has_seperator
            THEN Append(result, options.injectable_char)
            ELSE result
    IN  IF first_word \/ ~options.inverted
        THEN Append(injected, to_ascii_uppercase(character))
        ELSE Append(injected, to_ascii_lowercase(character))

\* One iteration of to_case_camel_like's loop over the characters.
camel_step(st, character, options) ==
    IF char_is_seperator(character) /\ st.found_real_char
    THEN [st EXCEPT !.new_word = TRUE]
    ELSE IF ~st.found_real_char /\ is_not_alphanumeric(character)
    THEN st
    ELSE IF is_numeric(character)
    THEN [st EXCEPT !.found_real_char = TRUE,
                    !.new_word = TRUE,
                    !.result = Append(@, character)]
    ELSE IF last_char_lower_current_is_upper_or_new_word(
                st.new_word, st.last_char, character)
    THEN [st EXCEPT !.found_real_char = TRUE,
                    !.new_word = FALSE,
                    !.result = append_on_new_word(@, st.first_word, character, options),
                    !.first_word = FALSE]
    ELSE [st EXCEPT !.found_real_char = TRUE,
                    !.last_char = character,
                    !.result = Append(@, to_ascii_lowercase(character))]

RECURSIVE camel_loop(_, _, _)
camel_loop(st, chars, options) ==
    IF chars = <<>>
    THEN st
    ELSE camel_loop(camel_step(st, Head(chars), options), Tail(chars), options)

to_case_camel_like(convertable_string, options) ==
    camel_loop([ new_word |-> options.new_word,
                 first_word |-> options.first_word,
                 last_char |-> options.last_char,
                 found_real_char |-> FALSE,
                 result |-> <<>> ],
               trim_right(convertable_string), options).result

\* Inflector's to_singular, restricted to the rules that can match the words
\* this model writes: a final "ss" is kept, any other final lowercase "s" is
\* dropped (rule (\w*)s$, matched case-sensitively), everything else is
\* returned as it is.
to_singular(word) ==
    LET n == Len(word)
    IN  IF n >= 1 /\ word[n] = "s" /\ ~(n >= 2 /\ word[n - 1] = "s")
        THEN SubSeq(word, 1, n - 1)
        ELSE word

\* class_plural.rfind(char::is_uppercase).unwrap_or(0)
rfind_uppercase(s) ==
    IF \E i \in 1..Len(s) : is_uppercase(s[i])
    THEN CHOOSE i \in 1..Len(s) :
             is_uppercase(s[i]) /\ \A j \in (i + 1)..Len(s) : ~is_uppercase(s[j])
    ELSE 1

to_class_case(word) ==
    LET class_plural == to_case_camel_like(word, ClassCaseOptions)
        at == rfind_uppercase(class_plural)
    IN  SubSeq(class_plural, 1, at - 1)
            \o to_singular(SubSeq(class_plural, at, Len(class_plural)))

(***************************************************************************)
(* syn::Path, as far as the macro reads it: an optional leading "::" and   *)
(* the segments, each an identifier with its generic arguments             *)
(* ("none", "<T>", or the turbofish "::<T>").                              *)
(***************************************************************************)
Segment(ident, arguments) == [ident |-> ident, arguments |-> arguments]

Path(leading_colon, segments) ==
    [leading_colon |-> leading_colon, segments |-> segments]

(***************************************************************************)
(* recapitalize_error_path (variant.rs:44-59).                             *)
(***************************************************************************)
RECURSIVE path_words(_)
path_words(segments) ==
    IF segments = <<>>
    THEN <<>>
    ELSE split(Head(segments).ident, "_") \o path_words(Tail(segments))

RECURSIVE push_class_cased(_)
push_class_cased(words) ==
    IF words = <<>>
    THEN <<>>
    ELSE to_class_case(Head(words)) \o push_class_cased(Tail(words))

recapitalize_error_path(p) == push_class_cased(path_words(p.segments))

(***************************************************************************)
(* Variant::from (variant.rs:11-18).                                       *)
(***************************************************************************)
StripArguments(p) ==
    Path(p.leading_colon,
         [i \in 1..Len(p.segments) |-> Segment(p.segments[i].ident, "none")])

Variant_from_stripped(p) ==
    [variant_name |-> recapitalize_error_path(p), error_type |-> StripArguments(p)]

Variant_from(p) ==
    [variant_name |-> recapitalize_error_path(p), error_type |-> p]

(***************************************************************************)
(* The input TokenStream.  A token is a punctuation or group kind, or an   *)
(* identifier with its text.  ":" and "::" are the lexer's two tokens;     *)
(* "<T>" stands for one well-formed angle-bracketed argument list.         *)
(***************************************************************************)
Tok(k) == [k |-> k, id |-> <<>>]

IdentTok(id) == [k |-> "ident", id |-> id]

Kind(ts, i) == IF i <= Len(ts) THEN ts[i].k ELSE "eof"

NoPath == Path(FALSE, <<>>)

(***************************************************************************)
(* ErrorSpecification::parse (parser.rs:11-25) and the syn parsers it      *)
(* calls, each from cursor position i; "next" is the cursor afterwards.    *)
(***************************************************************************)
\* parser.rs:13  let visibility: Visibility = input.parse()?;
Visibility_parse(ts, i) ==
    IF Kind(ts, i) = "pub"
    THEN [visibility |-> "pub", next |-> i + 1]
    ELSE [visibility |-> "inherited", next |-> i]

\* parser.rs:16  PathSegment within Path::parse: the identifier, then "<T>"
\* or "::" "<T>" as its arguments when they follow.
PathSegment_parse(ts, i) ==
    IF Kind(ts, i) # "ident"
    THEN [ok |-> FALSE, segment |-> Segment(<<>>, "none"), next |-> i]
    ELSE IF Kind(ts, i + 1) = "<T>"
    THEN [ok |-> TRUE, segment |-> Segment(ts[i].id, "<T>"), next |-> i + 2]
    ELSE IF Kind(ts, i + 1) = "::" /\ Kind(ts, i + 2) = "<T>"
    THEN [ok |-> TRUE, segment |-> Segment(ts[i].id, "::<T>"), next |-> i + 3]
    ELSE [ok |-> TRUE, segment |-> Segment(ts[i].id, "none"), next |-> i + 1]

\* Path::parse_rest: while a "::" follows, one more segment.
RECURSIVE Path_parse_rest(_, _, _, _)
Path_parse_rest(ts, i, leading_colon, segments) ==
    IF Kind(ts, i) # "::"
    THEN [ok |-> TRUE, path |-> Path(leading_colon, segments), next |-> i]
    ELSE LET seg == PathSegment_parse(ts, i + 1)
         IN  IF ~seg.ok
             THEN [ok |-> FALSE, path |-> NoPath, next |-> seg.next]
             ELSE Path_parse_rest(ts, seg.next, leading_colon,
                                  Append(segments, seg.segment))

\* parser.rs:16  Path::parse: an optional leading "::", then the segments.
Path_parse(ts, i) ==
    LET leading_colon == Kind(ts, i) = "::"
        first == PathSegment_parse(ts, IF leading_colon THEN i + 1 ELSE i)
    IN  IF ~first.ok
        THEN [ok |-> FALSE, path |-> NoPath, next |-> first.next]
        ELSE Path_parse_rest(ts, first.next, leading_colon, << first.segment >>)

\* parser.rs:16  input.parse_terminated::<Path, Token![,]>(Path::parse):
\* loop { if empty break; value; if empty break; punct }.
RECURSIVE parse_terminated(_, _, _)
parse_terminated(ts, i, punctuated) ==
    IF i > Len(ts)
    THEN [ok |-> TRUE, punctuated |-> punctuated, next |-> i]
    ELSE LET value == Path_parse(ts, i)
         IN  IF ~value.ok
             THEN [ok |-> FALSE, punctuated |-> <<>>, next |-> value.next]
             ELSE IF value.next > Len(ts)
             THEN [ok |-> TRUE, punctuated |-> Append(punctuated, value.path),
                   next |-> value.next]
             ELSE IF Kind(ts, value.next) # ","
             THEN [ok |-> FALSE, punctuated |-> <<>>, next |-> value.next]
             ELSE parse_terminated(ts, value.next + 1,
                                   Append(punctuated, value.path))

\* A syn::Error; span is the position of the offending token.
ParseError(at) ==
    [ok |-> FALSE, visibility |-> "inherited", name |-> <<>>,
     error_types |-> <<>>, span |-> at]

ErrorSpecification_parse(ts) ==
    LET vis == Visibility_parse(ts, 1)
        at_name == vis.next
        at_colon == at_name + 1
        paths == parse_terminated(ts, at_colon + 1, <<>>)
    IN  IF Kind(ts, at_name) # "ident" THEN ParseError(at_name)
        ELSE IF Kind(ts, at_colon) # ":" THEN ParseError(at_colon)
        ELSE IF ~paths.ok THEN ParseError(paths.next)
        ELSE [ok |-> TRUE, visibility |-> vis.visibility, name |-> ts[at_name].id,
              error_types |-> paths.punctuated, span |-> 0]

(***************************************************************************)
(* The emitted declarations.  A reference to a standard item is the path   *)
(* the template writes: whether it starts with "::", and its segments.     *)
(***************************************************************************)
StdRef(leading_colon, segments) ==
    [leading_colon |-> leading_colon, segments |-> segments]

Item(decl, refs, visibility, name, ctors, source, ctor) ==
    [decl |-> decl, refs |-> refs, visibility |-> visibility, name |-> name,
     ctors |-> ctors, source |-> source, ctor |-> ctor]

\* Variant::to_tokens (variant.rs:34-42):  #name(#error_type)
to_tokens(v) == [name |-> v.variant_name, payload |-> v.error_type]

\* Variant::build_from_impl (variant.rs:20-32):
\*   impl ::std::convert::From<#error_type> for #enum_name
\*       { fn from(error: #error_type) -> Self { Self::#name(error) } }
build_from_impl(v, enum_name) ==
    Item("impl From", << StdRef(TRUE, << "std", "convert", "From" >>) >>,
         "", enum_name, <<>>, v.error_type,
         [name |-> v.variant_name, argument |-> "error", parameter |-> "error"])

NoCtor == [name |-> <<>>, argument |-> "", parameter |-> ""]

\* lib.rs:94-107, the quote! template of the enum, Display and Error.
quote_declarations(visibility, trait_name, vs) ==
    << Item("enum", << StdRef(TRUE, << "std", "fmt", "Debug" >>) >>,
            visibility, trait_name,
            [i \in 1..Len(vs) |-> to_tokens(vs[i])], NoPath, NoCtor),
       Item("impl Display",
            << StdRef(TRUE, << "std", "fmt", "Display" >>),
               StdRef(TRUE, << "std", "fmt", "Formatter" >>),
               StdRef(TRUE, << "std", "fmt", "Result" >>),
               StdRef(FALSE, << "write" >>) >>,
            "", trait_name, <<>>, NoPath, NoCtor),
       Item("impl Error", << StdRef(TRUE, << "std", "error", "Error" >>) >>,
            "", trait_name, <<>>, NoPath, NoCtor) >>

NoTokens == [kind |-> "none", items |-> <<>>]

\* What parse_macro_input! returns on Err: err.to_compile_error() alone.
CompileError == [kind |-> "compile_error", items |-> <<>>]

\* Ident::new panicked inside the macro: nothing is returned.
Panicked == [kind |-> "panic", items |-> <<>>]

\* lib.rs:92  error_types.into_iter().map(|path| Variant::from(path)).collect()
map_variants(error_types) ==
    [i \in 1..Len(error_types) |-> Variant_from(error_types[i])]

\* lib.rs:94-113: the quote! template, whose #(#variants),* calls to_tokens
\* and so Ident::new on every variant, then build_from_impl per variant.
expand(spec, vs) ==
    IF \E i \in 1..Len(vs) : ~Ident_new_ok(vs[i].variant_name)
    THEN Panicked
    ELSE [kind |-> "tokens",
          items |-> quote_declarations(spec.visibility, spec.name, vs)
                    \o [i \in 1..Len(vs) |-> build_from_impl(vs[i], spec.name)]]

expansion(spec, vs) ==
    [error_specification |-> spec, variants |-> vs, tokens |-> expand(spec, vs)]

\* A handler that goes on to the templates after a parse error, the
\* diagnostic added to what it emits.
parse_macro_input_continue(parsed) ==
    IF parsed.ok
    THEN expansion(parsed, map_variants(parsed.error_types))
    ELSE [error_specification |-> parsed, variants |-> <<>>,
          tokens |-> [kind |-> "compile_error",
                      items |-> quote_declarations(parsed.visibility,
                                                   parsed.name, <<>>)]]

\* lib.rs:88  parse_macro_input!(input as ErrorSpecification): on Err the
\* macro returns err.to_compile_error() and nothing else; on Ok the rest of
\* create_error runs.
parse_macro_input(parsed) ==
    IF parsed.ok
    THEN expansion(parsed, map_variants(parsed.error_types))
    ELSE [error_specification |-> parsed, variants |-> <<>>,
          tokens |-> CompileError]

\* create_error (lib.rs:87-114), the whole handler.
create_error(ts) == parse_macro_input(ErrorSpecification_parse(ts))

(***************************************************************************)
(* Spec: a token stream is written token by token, then the macro is       *)
(* invoked on it once.                                                     *)
(***************************************************************************)
id_ER == << "E", "R" >>
id_Er == << "E", "r" >>
id_underscores == << "_", "_" >>

IdentPool == {id_ER, id_Er, id_underscores}

TokenSet ==
    {Tok("pub"), Tok(":"), Tok(","), Tok("::"), Tok("<T>")}
        \cup {IdentTok(id) : id \in IdentPool}

NotParsed == ParseError(0)

NoVariant == [variant_name |-> <<>>, error_type |-> NoPath]

Init ==
    /\ phase = "lexing"
    /\ input = <<>>
    /\ error_specification = NotParsed
    /\ variants = <<>>
    /\ tokens = NoTokens
    /\ cur = <<>>
    /\ path = NoPath
    /\ variant = NoVariant

Lex(t) ==
    /\ phase = "lexing"
    /\ Len(input) < MaxTokens
    /\ input' = Append(input, t)
    /\ UNCHANGED <<phase, error_specification, variants, tokens, cur, path, variant>>

Returned(r) ==
    /\ error_specification' = r.error_specification
    /\ variants' = r.variants
    /\ tokens' = r.tokens

Invoke ==
    /\ phase = "lexing"
    /\ Returned(create_error(input))
    /\ phase' = "done"
    /\ UNCHANGED <<input, cur, path, variant>>

Next ==
    \/ \E t \in TokenSet : Lex(t)
    \/ Invoke

Spec == Init /\ [][Next]_vars

(***************************************************************************)
(* NameSpec: a path is written character by character and segment by       *)
(* segment, then Variant::from is applied to it.  The initial path is      *)
(* empty or one of the documented examples (lib.rs:70, basic_use.rs:139).  *)
(***************************************************************************)
NameChars == {"r", "s", "E", "1", "_"}

\* What syn's Ident parser takes as a segment identifier.
is_identifier(s) == Ident_new_ok(s)

PlainPath(idents) ==
    Path(FALSE, [i \in 1..Len(idents) |-> Segment(idents[i], "none")])

w_std == << "s", "t", "d" >>
w_num == << "n", "u", "m" >>
w_str == << "s", "t", "r" >>
w_ParseIntError ==
    << "P", "a", "r", "s", "e", "I", "n", "t", "E", "r", "r", "o", "r" >>
w_ParseBoolError ==
    << "P", "a", "r", "s", "e", "B", "o", "o", "l", "E", "r", "r", "o", "r" >>
w_actix_web == << "a", "c", "t", "i", "x", "_", "w", "e", "b" >>
w_Error == << "E", "r", "r", "o", "r" >>
w_aa == << "a", "a" >>
w_bb == << "b", "b" >>
w_cc == << "c", "c" >>
w_ABC == << "A", "B", "C" >>
w_crate1 == << "c", "r", "a", "t", "e", "1" >>
w_Error1 == << "E", "r", "r", "o", "r", "1" >>

\* The documented examples: a path and the variant name documented for it.
Examples ==
    << [path |-> PlainPath(<< w_ParseIntError >>),
        name |-> w_ParseIntError],
       [path |-> PlainPath(<< w_std, w_num, w_ParseIntError >>),
        name |-> << "S", "t", "d", "N", "u", "m" >> \o w_ParseIntError],
       [path |-> PlainPath(<< w_actix_web, w_Error >>),
        name |-> << "A", "c", "t", "i", "x", "W", "e", "b" >> \o w_Error],
       [path |-> PlainPath(<< w_aa, w_bb, w_cc, w_ABC >>),
        name |-> << "A", "a", "B", "b", "C", "c", "A", "b", "c" >>],
       [path |-> PlainPath(<< w_crate1, w_Error1 >>),
        name |-> << "C", "r", "a", "t", "e", "1" >> \o w_Error1],
       [path |-> PlainPath(<< w_std, w_str, w_ParseBoolError >>),
        name |-> << "S", "t", "d", "S", "t", "r" >> \o w_ParseBoolError] >>

NameInit ==
    /\ phase = "typing"
    /\ input = <<>>
    /\ error_specification = NotParsed
    /\ variants = <<>>
    /\ tokens = NoTokens
    /\ cur = <<>>
    /\ path \in {NoPath} \cup {Examples[k].path : k \in 1..Len(Examples)}
    /\ variant = NoVariant

TypeChar(c) ==
    /\ phase = "typing"
    /\ Len(path.segments) < MaxSegments
    /\ Len(cur) < MaxIdentLen
    /\ cur' = Append(cur, c)
    /\ UNCHANGED <<phase, input, error_specification, variants, tokens, path, variant>>

EndSegment ==
    /\ phase = "typing"
    /\ is_identifier(cur)
    /\ Len(path.segments) < MaxSegments
    /\ path' = Path(path.leading_colon, Append(path.segments, Segment(cur, "none")))
    /\ cur' = <<>>
    /\ UNCHANGED <<phase, input, error_specification, variants, tokens, variant>>

Derive ==
    /\ phase = "typing"
    /\ cur = <<>>
    /\ Len(path.segments) >= 1
    /\ variant' = Variant_from(path)
    /\ phase' = "derived"
    /\ UNCHANGED <<input, error_specification, variants, tokens, cur, path>>

NameNext ==
    \/ \E c \in NameChars : TypeChar(c)
    \/ EndSegment
    \/ Derive

NameSpec == NameInit /\ [][NameNext]_vars

(***************************************************************************)
(* Properties.                                                             *)
(***************************************************************************)
Done == phase = "done"

Accepted == Done /\ error_specification.ok

Emitted == Done /\ tokens.kind = "tokens"

NumPaths == Len(error_specification.error_types)

PathAt(i) == error_specification.error_types[i]

ItemsOf(decl) == SelectSeq(tokens.items, LAMBDA it : it.decl = decl)

\* The class-cased concatenation of the specification's section 4.2, written
\* per character: underscores are dropped; a character is uppercased when it
\* starts a word (first of the identifier, or after an underscore) or follows
\* a lowercase character and is itself uppercase; otherwise it is lowercased.
RECURSIVE Flatten(_)
Flatten(strs) ==
    IF strs = <<>> THEN <<>> ELSE Head(strs) \o Flatten(Tail(strs))

ReferenceIdent(id) ==
    Flatten([i \in 1..Len(id) |->
        IF id[i] = "_" THEN <<>>
        ELSE IF i = 1 \/ id[i - 1] = "_"
                \/ (is_lowercase(id[i - 1]) /\ is_uppercase(id[i]))
        THEN << to_ascii_uppercase(id[i]) >>
        ELSE << to_ascii_lowercase(id[i]) >>])

ReferenceName(p) ==
    Flatten([i \in 1..Len(p.segments) |-> ReferenceIdent(p.segments[i].ident)])

\* C1: for every path, the variant name that recapitalize_error_path derives
\* equals the reference class-cased concatenation of the path's segment
\* identifiers (underscore-split, empty words dropped, camelCase boundaries
\* kept, no separator).
C1_NameIsReferenceName ==
    phase = "derived" => variant.variant_name = ReferenceName(path)

\* The documented examples of C1 (std::num::ParseIntError, actix_web::Error,
\* aa::bb::cc::ABC, crate1::Error1, ...) derive the documented names.
DocumentedExamplesDerive ==
    phase = "derived" =>
        \A k \in 1..Len(Examples) :
            path = Examples[k].path => variant.variant_name = Examples[k].name

\* C2: for every accepted specification with n paths, the emitted enum has
\* exactly n constructors, the i-th named with the name derived from the i-th
\* path and wrapping the i-th path unchanged, in input order.
C2_EnumHasOneConstructorPerPath ==
    Accepted =>
        /\ tokens.kind = "tokens"
        /\ Len(ItemsOf("enum")) = 1
        /\ LET ctors == ItemsOf("enum")[1].ctors
           IN  /\ Len(ctors) = NumPaths
               /\ \A i \in 1..NumPaths :
                     /\ ctors[i].name = recapitalize_error_path(PathAt(i))
                     /\ ctors[i].payload = PathAt(i)

\* The host's reading of the emitted impls: converting a value e of type T
\* applies a From impl whose source type is T; matching a value finds the
\* constructors of the enum that carry its tag.
ConvertedFrom(T, e) ==
    {[tag |-> ItemsOf("impl From")[k].ctor.name, payload |-> e] :
        k \in {j \in 1..Len(ItemsOf("impl From")) : ItemsOf("impl From")[j].source = T}}

MatchedBy(v) ==
    {i \in 1..Len(ItemsOf("enum")[1].ctors) : ItemsOf("enum")[1].ctors[i].name = v.tag}

\* C3: for every variant i of an accepted specification exactly one From impl
\* is emitted, from path[i] to the constructor named variant_name[i] applied
\* to the unchanged argument; converting a value of the i-th type and
\* matching it yields tag i and the same payload.
C3_OneInjectionPerVariant ==
    Accepted =>
        /\ tokens.kind = "tokens"
        /\ Len(ItemsOf("impl From")) = NumPaths
        /\ \A i \in 1..NumPaths :
              LET impl == ItemsOf("impl From")[i]
              IN  /\ impl.source = PathAt(i)
                  /\ impl.name = error_specification.name
                  /\ impl.ctor.name = recapitalize_error_path(PathAt(i))
                  /\ impl.ctor.argument = impl.ctor.parameter
                  /\ ConvertedFrom(PathAt(i), "e") # {}
                  /\ \A v \in ConvertedFrom(PathAt(i), "e") :
                        MatchedBy(v) = {i} /\ v.payload = "e"

\* C4: the parser never returns a specification whose list of paths is empty.
C4_AcceptedHasAPath ==
    Accepted => NumPaths >= 1

\* C5: every derived variant name is a legal identifier: not empty and not
\* starting with a digit, whatever legal identifiers the segments are.
C5_NameIsAnIdentifier ==
    phase = "derived" =>
        /\ variant.variant_name # <<>>
        /\ ~is_numeric(variant.variant_name[1])
        /\ Ident_new_ok(variant.variant_name)

\* The shape  visibility? name ':' path (',' path)* ','?  as an automaton
\* over the token kinds, a path being  '::'? segment ('::' segment)*  and a
\* segment an identifier with optional "<T>" or "::<T>".
GrammarStep(q, k) ==
    CASE q = "start" /\ k = "pub" -> "vis"
      [] q \in {"start", "vis"} /\ k = "ident" -> "name"
      [] q = "name" /\ k = ":" -> "colon"
      [] q \in {"colon", "comma"} /\ k = "::" -> "lead"
      [] q \in {"colon", "comma", "lead", "sep", "sep_after_args"} /\ k = "ident" -> "seg"
      [] q \in {"seg", "sep"} /\ k = "<T>" -> "args"
      [] q = "seg" /\ k = "::" -> "sep"
      [] q = "args" /\ k = "::" -> "sep_after_args"
      [] q \in {"seg", "args"} /\ k = "," -> "comma"
      [] OTHER -> "reject"

RECURSIVE GrammarRun(_, _)
GrammarRun(q, ts) ==
    IF ts = <<>> THEN q ELSE GrammarRun(GrammarStep(q, Head(ts).k), Tail(ts))

GrammarAccepts(ts) == GrammarRun("start", ts) \in {"seg", "args", "comma"}

SameSpecification(a, b) ==
    /\ a.ok = b.ok
    /\ a.visibility = b.visibility
    /\ a.name = b.name
    /\ a.error_types = b.error_types

\* C6: the parser accepts exactly the inputs of the shape
\* visibility? name ':' path (',' path)* ','?  with nothing after it, and a
\* trailing comma yields the same specification as the input without it.
C6_AcceptsExactlyTheGrammar ==
    Done =>
        /\ error_specification.ok <=> GrammarAccepts(input)
        /\ (error_specification.ok /\ Kind(input, Len(input)) = ",")
            => SameSpecification(
                   error_specification,
                   ErrorSpecification_parse(SubSeq(input, 1, Len(input) - 1)))

\* Apart from the empty path list, the parser and the grammar agree, and a
\* trailing comma changes nothing.
AcceptsTheGrammarOrAnEmptyList ==
    Done =>
        /\ error_specification.ok <=>
              (GrammarAccepts(input) \/ GrammarRun("start", input) = "colon")
        /\ (error_specification.ok /\ Kind(input, Len(input)) = ",")
            => SameSpecification(
                   error_specification,
                   ErrorSpecification_parse(SubSeq(input, 1, Len(input) - 1)))

\* C7: when parsing fails, create_error returns the diagnostic alone: no
\* enum, no Display impl, no Error impl and no From impl, not even for the
\* paths parsed before the offending token.
C7_FailureEmitsOnlyDiagnostic ==
    (Done /\ ~error_specification.ok) =>
        /\ tokens.kind = "compile_error"
        /\ tokens.items = <<>>
        /\ variants = <<>>

\* A failure after a whole path was parsed: the offending token follows it.
C7_FailureAfterAPath ==
    /\ Done
    /\ ~error_specification.ok
    /\ Path_parse(input, 3).ok
    /\ error_specification.span = Path_parse(input, 3).next
    /\ error_specification.span <= Len(input)
    /\ tokens.kind = "compile_error"

\* C8: every reference to a standard-library item in the emitted
\* declarations is a path rooted at ::std.
C8_StdReferencesAreRooted ==
    Emitted =>
        \A n \in 1..Len(tokens.items) :
            \A r \in 1..Len(tokens.items[n].refs) :
                /\ tokens.items[n].refs[r].leading_colon
                /\ tokens.items[n].refs[r].segments[1] = "std"

\* All of them but the write! of the Display body are rooted.
StdReferencesButWriteAreRooted ==
    Emitted =>
        \A n \in 1..Len(tokens.items) :
            \A r \in 1..Len(tokens.items[n].refs) :
                \/ tokens.items[n].refs[r] = StdRef(FALSE, << "write" >>)
                \/ /\ tokens.items[n].refs[r].leading_colon
                   /\ tokens.items[n].refs[r].segments[1] = "std"

Collides ==
    \E i, j \in 1..NumPaths :
        i # j /\ recapitalize_error_path(PathAt(i)) = recapitalize_error_path(PathAt(j))

\* C9: when two paths derive the same variant name the generator does not
\* reject the input, rename or drop a variant: both constructors are emitted
\* under the same name, each with its own payload and its own From impl.
C9_CollisionsAreEmittedAsTheyAre ==
    (Accepted /\ Collides) =>
        /\ tokens.kind = "tokens"
        /\ Len(ItemsOf("enum")) = 1
        /\ Len(ItemsOf("enum")[1].ctors) = NumPaths
        /\ Len(ItemsOf("impl From")) = NumPaths
        /\ \A i \in 1..NumPaths :
              /\ ItemsOf("enum")[1].ctors[i].name = recapitalize_error_path(PathAt(i))
              /\ ItemsOf("enum")[1].ctors[i].payload = PathAt(i)
              /\ ItemsOf("impl From")[i].source = PathAt(i)
              /\ ItemsOf("impl From")[i].ctor.name = recapitalize_error_path(PathAt(i))

\* Colliding names that are identifiers are emitted as they are.
LegalCollisionsAreEmitted ==
    (Accepted /\ Collides /\ \A i \in 1..NumPaths : Ident_new_ok(variants[i].variant_name))
        => /\ tokens.kind = "tokens"
           /\ Len(ItemsOf("enum")[1].ctors) = NumPaths
           /\ Len(ItemsOf("impl From")) = NumPaths

\* The name derived from the i-th path with its arguments taken off.
ReferenceArgsFreeName(i) == recapitalize_error_path(StripArguments(PathAt(i)))

HasArguments(p) == \E s \in 1..Len(p.segments) : p.segments[s].arguments # "none"

\* C10: only the bare identifiers of a path's segments contribute to the
\* variant name (paths that differ only in generic arguments derive the same
\* name), while the variant's type, the constructor's payload and the From
\* impl's source type are the full path with its arguments.
C10_ArgumentsOnlyInTheType ==
    Accepted =>
        /\ Len(variants) = NumPaths
        /\ \A i \in 1..NumPaths :
              /\ variants[i].variant_name = ReferenceArgsFreeName(i)
              /\ variants[i].error_type = PathAt(i)
              /\ Emitted =>
                    /\ ItemsOf("enum")[1].ctors[i].payload = PathAt(i)
                    /\ ItemsOf("impl From")[i].source = PathAt(i)
                    /\ ItemsOf("impl From")[i].ctor.name = variants[i].variant_name
        /\ \A i, j \in 1..NumPaths :
              StripArguments(PathAt(i)) = StripArguments(PathAt(j))
                  => variants[i].variant_name = variants[j].variant_name

\* Two emitted variants whose paths differ only in generic arguments.
C10_EmittedWithAndWithoutArguments ==
    /\ Emitted
    /\ \E i, j \in 1..NumPaths :
          /\ HasArguments(PathAt(i))
          /\ ~HasArguments(PathAt(j))
          /\ StripArguments(PathAt(i)) = PathAt(j)
          /\ ItemsOf("enum")[1].ctors[i].payload # ItemsOf("enum")[1].ctors[j].payload
          /\ ItemsOf("enum")[1].ctors[i].name = ItemsOf("enum")[1].ctors[j].name

====
